---- MODULE Spec2Model ----
(***************************************************************************)
(* Booking lifecycle engine of the air-ambulance backend                   *)
(* (src/routes/bookings.py, src/models/booking.py, src/models/user.py,     *)
(* src/routes/auth.py).                                                    *)
(*                                                                         *)
(* State: the bookings collection, the id allocator, the last reading of   *)
(* the wall clock at the store's millisecond resolution, and the           *)
(* observable outcome of the request being answered (HTTP result,          *)
(* notifications dispatched, events handed to the broadcast channel,       *)
(* response body).  One action per route handler.                          *)
(*                                                                         *)
(* Specifications: Spec, the routes with one request answered at a time;   *)
(* SpecOne, the history of one booking; SpecNormalize and SpecRecipients,  *)
(* the equipment normaliser and the recipient resolver on their own;       *)
(* SpecBroadcast, the websocket registry; SpecRace, requests whose store   *)
(* calls interleave.                                                       *)
(*                                                                         *)
(* Money is kept in whole currency units: the urgency multipliers 1.5,     *)
(* 1.2 and 1.0 are carried as tenths (15, 12, 10), and every product the   *)
(* handlers form (5000 * m, 100 * d * m) is a whole number.                *)
(***************************************************************************)
EXTENDS Integers, Sequences, FiniteSets, TLC

VARIABLES
    bookings, nextId, now, writes, lastOp,      \* the booking routes
    equipment_arg, equipment_result,       \* a call of the normaliser
    recipients_arg, recipients_result,          \* a call of the resolver
    requests,                                   \* requests in flight together
    active_connections, connected, closed,      \* the websocket registry
    broadcasting                                \* a call of manager.broadcast

vars == <<bookings, nextId, now, writes, lastOp, equipment_arg,
          equipment_result, recipients_arg, recipients_result, requests,
          active_connections, connected, closed,
          broadcasting>>

\* What the booking routes leave alone in this model: the normaliser call
\* and the registry are followed on their own.
aside == <<equipment_arg, equipment_result, recipients_arg,
           recipients_result, requests, active_connections,
           connected, closed, broadcasting>>

(***************************************************************************)
(* Bounds of the model.                                                    *)
(***************************************************************************)
MaxWrites == 2        \* committed store mutations in one run
DurationStep == 100   \* stride of the sampled random flight durations
MaxLabels == 2        \* length of the lists handed to the normaliser
MaxSockets == 3       \* websockets accepted in one run
MaxTasks == 2         \* requests in flight together on one booking

(***************************************************************************)
(* Optional values (Python None / Optional[T]).                            *)
(***************************************************************************)
Null == <<>>
Some(v) == <<v>>
IsNull(o) == o = <<>>
Val(o) == o[1]

(***************************************************************************)
(* Enumerations.                                                           *)
(***************************************************************************)
UserRole ==
    {"superadmin", "dispatcher", "hospital_staff", "medical_team",
     "airline_coordinator", "pilot", "doctor", "paramedic", "patient",
     "clinician"}

BookingStatus ==
    {"pending", "approved", "scheduled", "en_route", "completed", "cancelled"}

AcuityLevel == {"critical", "urgent", "stable"}

EquipmentType ==
    {"ventilator", "ecg_monitor", "defibrillator", "oxygen_supply",
     "infusion_pump", "patient_monitor"}

(***************************************************************************)
(* The users collection: an account for every role a handler names, a      *)
(* second hospital_staff account, a deactivated dispatcher, and a pilot    *)
(* for the roles no handler names.                                         *)
(***************************************************************************)
Users ==
    {"admin", "disp", "disp0", "hs1", "hs2", "pilot", "doc", "para"}

role(u) ==
    CASE u = "admin" -> "superadmin"
      [] u \in {"disp", "disp0"} -> "dispatcher"
      [] u \in {"hs1", "hs2"} -> "hospital_staff"
      [] u = "pilot" -> "pilot"
      [] u = "doc" -> "doctor"
      [] u = "para" -> "paramedic"

is_active(u) == u # "disp0"

\* routes/auth.py get_current_active_user: an inactive account is refused
\* with 403 before any handler body runs.
get_current_active_user(u) == is_active(u)

\* A document of the users collection.  register (routes/auth.py:92-97),
\* create_user (routes/users.py:42-55) and init_db insert the declared
\* fields; the store adds _id, and no document is given a key "id".
user_document(u) == [_id |-> u, role |-> role(u), is_active |-> is_active(u)]

\* The documents of the users collection, in the order a find returns them.
users_collection ==
    <<user_document("admin"), user_document("disp"), user_document("disp0"),
      user_document("hs1"), user_document("hs2"), user_document("pilot"),
      user_document("doc"), user_document("para")>>

\* users_collection.find({"role": {"$in": roles}, "is_active": True})
find_users(roles) ==
    LET matches(user) == user.role \in roles /\ user.is_active
    IN SelectSeq(users_collection, matches)

\* User(**user): the model requires id (models/user.py:43), ignores the
\* keys it does not declare, and raises ValidationError when id is missing.
IsUser(user) == "id" \in DOMAIN user
User(user) == user.id

\* lines 114-119: the recipients in order, each kept at its first place
RECURSIVE unique_recipients(_)
unique_recipients(recipients) ==
    IF recipients = <<>> THEN <<>>
    ELSE LET front == unique_recipients(SubSeq(recipients, 1, Len(recipients) - 1))
             last == recipients[Len(recipients)]
         IN IF \E i \in 1..Len(front) : front[i] = last
            THEN front ELSE Append(front, last)

\* A faulty handler of the resolver's exceptions that returns the empty
\* list it started with; C21 tells it from the resolver's.
recipients_on_error_empty(current_user) == <<>>

\* lines 122-124: whatever the try block raises, the actor alone
recipients_on_error(current_user) == <<current_user>>

\* A user is the string form of its _id.  The comprehensions of lines 103
\* and 110 build a User from every document found, and raise on the first
\* one that User rejects.
get_notification_recipients(booking, current_user, action) ==
    LET dispatchers ==
            IF action \in {"created", "updated", "emergency"}
            THEN find_users({"dispatcher", "superadmin", "airline_coordinator"})
            ELSE <<>>
        medical_staff ==
            IF action = "emergency" \/ booking.urgency = "critical"
            THEN find_users({"doctor", "paramedic"})
            ELSE <<>>
        found == dispatchers \o medical_staff
    IN IF \E i \in 1..Len(found) : ~IsUser(found[i])
       THEN recipients_on_error(current_user)
       ELSE unique_recipients(
                <<current_user>> \o [i \in 1..Len(found) |-> User(found[i])])

(***************************************************************************)
(* Request ids.  BadId stands for a string that is not a valid ObjectId.   *)
(***************************************************************************)
BadId == 0
BookingIds == 1..MaxWrites
\* The ids requests are made with: a malformed one, every id handed out so
\* far (stored or deleted) and one that no booking has had yet.
ReqIds == {BadId} \cup {id \in BookingIds : id <= nextId + 1}
is_valid(id) == id # BadId

(***************************************************************************)
(* HTTP results.                                                           *)
(***************************************************************************)
Ok == "ok"
PermissionDenied == "PermissionDenied"      \* 403
NotFound == "NotFound"                      \* 404
ValidationError == "ValidationError"        \* 400
InternalError == "InternalError"            \* 500

(***************************************************************************)
(* Cost estimator.                                                         *)
(***************************************************************************)
BaseCost == 5000
BaseRate == 100
EquipmentUnitCost == 500
MinFlightDuration == 30
MaxFlightDuration == 180

\* urgency_multiplier.get(urgency, 1.0), in tenths
urgency_multiplier(u) ==
    CASE u = "critical" -> 15
      [] u = "urgent" -> 12
      [] u = "stable" -> 10
      [] OTHER -> 10

calculate_estimated_cost(booking_data) ==
    (BaseCost * urgency_multiplier(booking_data.urgency)) \div 10
        + Len(booking_data.required_equipment) * EquipmentUnitCost

calculate_actual_cost(booking_data, flight_duration) ==
    (BaseRate * flight_duration * urgency_multiplier(booking_data.urgency)) \div 10
        + Len(booking_data.required_equipment) * EquipmentUnitCost

\* random.randint(30, 180): the set of values a call may return, sampled
\* every DurationStep minutes from the lower end.
calculate_flight_duration ==
    {d \in MinFlightDuration..MaxFlightDuration :
        (d - MinFlightDuration) % DurationStep = 0}

(***************************************************************************)
(* Equipment normalisation.  A Python str is the sequence of its           *)
(* characters.  An element of the list handed to normalize_equipment_data  *)
(* is a record: kind "enum" for an EquipmentType member, "str" for a       *)
(* string, "other" for any other object; text is the member's value, the   *)
(* string, or empty.                                                       *)
(***************************************************************************)
\* EquipmentType(...).value
EquipmentValue(equipment) ==
    CASE
         equipment = "ventilator" ->
           <<"v", "e", "n", "t", "i", "l", "a", "t", "o", "r">>
      [] equipment = "ecg_monitor" ->
           <<"e", "c", "g", "_", "m", "o", "n", "i", "t", "o", "r">>
      [] equipment = "defibrillator" ->
           <<"d", "e", "f", "i", "b", "r", "i", "l", "l", "a", "t", "o", "r">>
      [] equipment = "oxygen_supply" ->
           <<"o", "x", "y", "g", "e", "n", "_", "s", "u", "p", "p", "l", "y">>
      [] equipment = "infusion_pump" ->
           <<"i", "n", "f", "u", "s", "i", "o", "n", "_", "p", "u", "m", "p">>
      [] equipment = "patient_monitor" ->
           <<"p", "a", "t", "i", "e", "n", "t", "_", "m", "o", "n", "i", "t", "o", "r">>

\* EquipmentType(text): the member with that value; ValueError when none
IsEquipmentValue(text) == \E e \in EquipmentType : EquipmentValue(e) = text
EquipmentOf(text) == CHOOSE e \in EquipmentType : EquipmentValue(e) = text

\* A list of members, as pydantic hands over a List[EquipmentType]
EquipmentMembers(members) ==
    [i \in DOMAIN members |->
        [kind |-> "enum", text |-> EquipmentValue(members[i])]]

UpperCase ==
    <<"A", "B", "C", "D", "E", "F", "G", "H", "I", "J", "K", "L", "M">> \o
    <<"N", "O", "P", "Q", "R", "S", "T", "U", "V", "W", "X", "Y", "Z">>
LowerCase ==
    <<"a", "b", "c", "d", "e", "f", "g", "h", "i", "j", "k", "l", "m">> \o
    <<"n", "o", "p", "q", "r", "s", "t", "u", "v", "w", "x", "y", "z">>

\* str.lower() on one character
lower(c) ==
    IF \E i \in 1..Len(UpperCase) : UpperCase[i] = c
    THEN LowerCase[CHOOSE i \in 1..Len(UpperCase) : UpperCase[i] = c]
    ELSE c

\* A faulty normal form that keeps the case; C17 tells it from the
\* function's.
normalized_cased(text) ==
    [i \in 1..Len(text) |-> IF text[i] = " " THEN "_" ELSE text[i]]

\* line 134: equipment.lower().replace(' ', '_')
normalized(text) ==
    [i \in 1..Len(text) |-> IF text[i] = " " THEN "_" ELSE lower(text[i])]

\* sub in text
Contains(text, sub) ==
    \E i \in 1..(Len(text) - Len(sub) + 1) :
        SubSeq(text, i, i + Len(sub) - 1) = sub

\* lines 139-152: the variations, tried in this order
variation(text) ==
    IF Contains(text, <<"v", "e", "n", "t", "i", "l", "a", "t", "o", "r">>)
    THEN <<"ventilator">>
    ELSE IF Contains(text, <<"e", "c", "g">>)
            \/ Contains(text, <<"m", "o", "n", "i", "t", "o", "r">>)
    THEN <<"ecg_monitor">>
    ELSE IF Contains(text, <<"d", "e", "f", "i", "b">>)
    THEN <<"defibrillator">>
    ELSE IF Contains(text, <<"o", "x", "y", "g", "e", "n">>)
    THEN <<"oxygen_supply">>
    ELSE IF Contains(text, <<"i", "n", "f", "u", "s", "i", "o", "n">>)
    THEN <<"infusion_pump">>
    ELSE IF Contains(text, <<"p", "a", "t", "i", "e", "n", "t">>)
    THEN <<"patient_monitor">>
    ELSE <<>>

\* One turn of the loop: what the element adds to the result.
normalize_equipment(equipment) ==
    CASE equipment.kind = "enum" -> <<EquipmentOf(equipment.text)>>
      [] equipment.kind = "str" ->
            IF IsEquipmentValue(normalized(equipment.text))
            THEN <<EquipmentOf(normalized(equipment.text))>>
            ELSE variation(normalized(equipment.text))
      [] OTHER -> <<>>

RECURSIVE normalize_equipment_data(_)
normalize_equipment_data(equipment_list) ==
    IF equipment_list = <<>> THEN <<>>
    ELSE normalize_equipment(Head(equipment_list))
             \o normalize_equipment_data(Tail(equipment_list))

(***************************************************************************)
(* Request payloads.                                                       *)
(***************************************************************************)
\* The JSON bodies of create requests that are tried: urgency and
\* required_equipment, whether patient_id parses as an ObjectId, and a
\* status key, which a client may send although BookingCreate does not
\* declare it.
CreateFields ==
    {[urgency |-> "critical",
      required_equipment |-> <<"ventilator", "ecg_monitor">>],
     [urgency |-> "urgent",
      required_equipment |-> <<"ventilator", "ventilator">>],
     [urgency |-> "stable", required_equipment |-> <<>>]}

CreatePayloads ==
    {[urgency |-> f.urgency, required_equipment |-> f.required_equipment,
      patient_id_valid |-> v, status |-> st] :
        f \in CreateFields, v \in BOOLEAN, st \in {Null, Some("completed")}}

\* BookingCreate(...).dict(): the declared fields only.
BookingCreate(payload) ==
    [urgency |-> payload.urgency,
     required_equipment |-> payload.required_equipment]

NoPatch ==
    [status |-> Null, urgency |-> Null, required_equipment |-> Null,
     actual_cost |-> Null, flight_duration |-> Null,
     assigned_aircraft_id |-> Null, assigned_crew_ids |-> Null]

\* The bodies of update requests that are tried.  A field that is Null is
\* unset or null in the request: line 438 drops both alike.
Patches ==
    {NoPatch,
     [NoPatch EXCEPT !.status = Some("approved")],
     [NoPatch EXCEPT !.status = Some("pending")],
     [NoPatch EXCEPT !.status = Some("completed")],
     [NoPatch EXCEPT !.status = Some("completed"),
                     !.urgency = Some("stable"),
                     !.required_equipment = Some(<<"defibrillator">>)],
     [NoPatch EXCEPT !.status = Some("completed"),
                     !.flight_duration = Some(45),
                     !.actual_cost = Some(1000)],
     [NoPatch EXCEPT !.actual_cost = Some(1000)]}

\* BookingUpdate(...).dict(exclude_unset=True) without the None values
update_data_of(booking_update) == booking_update

(***************************************************************************)
(* Outcome of a request, as its caller and the side channels see it.       *)
(***************************************************************************)
Idle ==
    [op |-> "idle", actor |-> "admin", id |-> BadId, result |-> Ok,
     committed |-> FALSE, notes |-> <<>>, raised |-> FALSE, bcasts |-> <<>>,
     resp |-> <<>>, arg |-> <<>>, old |-> <<>>]

\* committed: the handler's store mutation went through; notes: the
\* notifications dispatched, in order; raised: a dispatch raised; bcasts:
\* the events handed to manager.broadcast; resp: the response body; arg:
\* the request body or query; old: the document the handler first read.
Outcome(op, actor, id, result, committed, notes, raised, bcasts, resp, arg, old) ==
    [op |-> op, actor |-> actor, id |-> id, result |-> result,
     committed |-> committed, notes |-> notes, raised |-> raised,
     bcasts |-> bcasts, resp |-> resp, arg |-> arg, old |-> old]

\* A handler that raises before it touches the store or a side channel.
\* id is the booking id as far as the handler has looked at it: BadId when
\* it raised before parsing the id (or has none).
Rejected(op, actor, id, result) ==
    Outcome(op, actor, id, result, FALSE, <<>>, FALSE, <<>>, <<>>, <<>>, <<>>)

\* A call of NotificationService: send_booking_notification with its
\* recipients, or send_emergency_alert, which takes none.
Notification(kind, recipients) == [kind |-> kind, recipients |-> recipients]

\* The notifications of `sends` that are dispatched when the failAt-th
\* dispatch raises (failAt = 0: none raises).
Dispatched(sends, failAt) ==
    IF failAt \in 1..Len(sends) THEN SubSeq(sends, 1, failAt - 1) ELSE sends

SendRaised(sends, failAt) == failAt \in 1..Len(sends)

\* The handlers await every dispatch inside their try block, and
\* "except Exception" turns whatever a dispatch raises into a 500.
ResultAfter(raised) == IF raised THEN InternalError ELSE Ok

\* The part of a handler that follows its store mutation: the dispatches
\* of `sends` in order, then the broadcast of `event`, then the response.
\* A dispatch that raises skips everything after it.
AfterCommit(op, actor, id, sends, failAt, event, resp, arg, old) ==
    Outcome(op, actor, id, ResultAfter(SendRaised(sends, failAt)), TRUE,
            Dispatched(sends, failAt), SendRaised(sends, failAt),
            IF SendRaised(sends, failAt) THEN <<>> ELSE <<event>>,
            IF SendRaised(sends, failAt) THEN <<>> ELSE resp,
            arg, old)

\* No broadcast is running.
NoBroadcast ==
    [pc |-> "idle", it |-> 0, connection |-> 0,
     disconnected_connections |-> <<>>, attempted |-> <<>>,
     start |-> <<>>, disturbed |-> FALSE]

\* A request slot: pc, how far its handler has come; op and booking_update,
\* the request; current_booking, update_data and updated_at, the handler's
\* locals of those names (updated_at is update_data["updated_at"]); result,
\* committed, notes, raised, bcasts and resp as in an Outcome; and for the
\* properties: before, the document the handler's write replaced, and
\* wrote, the place of its write among the committed writes.
NoRequest ==
    [pc |-> "none", op |-> "none", booking_update |-> NoPatch,
     current_booking |-> Null, update_data |-> NoPatch, updated_at |-> 0,
     before |-> Null, wrote |-> 0, result |-> Ok, committed |-> FALSE,
     notes |-> <<>>, raised |-> FALSE, bcasts |-> <<>>, resp |-> Null]

Tasks == 1..MaxTasks

NoRequests == [k \in Tasks |-> NoRequest]

\* No call of the resolver is followed.
NoResolution ==
    [urgency |-> "stable", current_user |-> "admin", action |-> "none",
     find_raises |-> FALSE]

\* No call of the normaliser is followed, no request slot is open, and the
\* registry is as ConnectionManager() builds it.
AsideInit ==
    /\ equipment_arg = <<>>
    /\ equipment_result = Null
    /\ recipients_arg = NoResolution
    /\ recipients_result = Null
    /\ requests = <<>>
    /\ active_connections = <<>>
    /\ connected = 0
    /\ closed = {}
    /\ broadcasting = NoBroadcast

Init ==
    /\ bookings = <<>>
    /\ nextId = 0
    /\ now = 0
    /\ writes = 0
    /\ lastOp = Idle
    /\ AsideInit

\* datetime.utcnow() as the store keeps it (milliseconds): the clock has
\* either not moved since its last reading or has moved on.  Stamps are
\* only ever compared with one another, so the first reading is 1.
utcnow == IF now = 0 THEN {1} ELSE {now, now + 1}

\* The response has gone out; the request's outcome is forgotten.
Respond ==
    /\ lastOp.op # "idle"
    /\ lastOp' = Idle
    /\ UNCHANGED aside
    /\ UNCHANGED <<bookings, nextId, now, writes>>

(***************************************************************************)
(* Booking store adapter (pymongo collection calls).                       *)
(***************************************************************************)
find_one(id) == IF id \in DOMAIN bookings THEN Some(bookings[id]) ELSE Null

\* A faulty $set that prices the booking anew; C20 tells it from the
\* store's.
ApplySetRepriced(b, update_data, t) ==
    LET set == [b EXCEPT
                   !.urgency = IF IsNull(update_data.urgency) THEN @
                               ELSE Val(update_data.urgency),
                   !.required_equipment =
                       IF IsNull(update_data.required_equipment) THEN @
                       ELSE Val(update_data.required_equipment),
                   !.updated_at = t]
    IN [set EXCEPT !.estimated_cost = Some(calculate_estimated_cost(set))]

\* A faulty $set that keeps an actual_cost already recorded; C25 tells it
\* from the store's.
ApplySetKeepCost(b, update_data, t) ==
    [b EXCEPT
        !.status = IF IsNull(update_data.status) THEN @
                   ELSE Val(update_data.status),
        !.urgency = IF IsNull(update_data.urgency) THEN @
                    ELSE Val(update_data.urgency),
        !.required_equipment =
            IF IsNull(update_data.required_equipment) THEN @
            ELSE Val(update_data.required_equipment),
        !.actual_cost = IF IsNull(update_data.actual_cost) \/ ~IsNull(@) THEN @
                        ELSE update_data.actual_cost,
        !.flight_duration = IF IsNull(update_data.flight_duration) THEN @
                            ELSE update_data.flight_duration,
        !.assigned_aircraft_id =
            IF IsNull(update_data.assigned_aircraft_id) THEN @
            ELSE update_data.assigned_aircraft_id,
        !.assigned_crew_ids =
            IF IsNull(update_data.assigned_crew_ids) THEN @
            ELSE Val(update_data.assigned_crew_ids),
        !.updated_at = t]

\* {"$set": update_data}: every key of update_data overwrites the stored
\* field; update_data always carries updated_at.
ApplySet(b, update_data, t) ==
    [b EXCEPT
        !.status = IF IsNull(update_data.status) THEN @
                   ELSE Val(update_data.status),
        !.urgency = IF IsNull(update_data.urgency) THEN @
                    ELSE Val(update_data.urgency),
        !.required_equipment =
            IF IsNull(update_data.required_equipment) THEN @
            ELSE Val(update_data.required_equipment),
        !.actual_cost = IF IsNull(update_data.actual_cost) THEN @
                        ELSE update_data.actual_cost,
        !.flight_duration = IF IsNull(update_data.flight_duration) THEN @
                            ELSE update_data.flight_duration,
        !.assigned_aircraft_id =
            IF IsNull(update_data.assigned_aircraft_id) THEN @
            ELSE update_data.assigned_aircraft_id,
        !.assigned_crew_ids =
            IF IsNull(update_data.assigned_crew_ids) THEN @
            ELSE Val(update_data.assigned_crew_ids),
        !.updated_at = t]

\* insert_one: the collection with the new document under a new id
insert_one(id, b) ==
    [i \in (DOMAIN bookings) \cup {id} |-> IF i = id THEN b ELSE bookings[i]]

\* A faulty update_one that inserts the document it does not find; C24
\* tells it from the store's.
update_one_upsert(id, update_data, t) ==
    [i \in (DOMAIN bookings) \cup {id} |->
        IF i \in DOMAIN bookings
        THEN IF i = id THEN ApplySet(bookings[i], update_data, t) ELSE bookings[i]
        ELSE ApplySet([urgency |-> "stable", required_equipment |-> <<>>,
                       status |-> "pending", assigned_crew_ids |-> <<>>,
                       assigned_aircraft_id |-> Null, actual_cost |-> Null,
                       flight_duration |-> Null, created_at |-> t,
                       updated_at |-> t, created_by |-> "disp",
                       estimated_cost |-> Null],
                      update_data, t)]

\* update_one({"_id": id}, {"$set": ...}): the collection afterwards
update_one(id, update_data, t) ==
    [i \in DOMAIN bookings |->
        IF i = id THEN ApplySet(bookings[i], update_data, t) ELSE bookings[i]]

\* A faulty modified_count that reports a write only when it changed the
\* status; C5 tells it from the store's.
modified_count_on_status(id, update_data, t) ==
    IF id \in DOMAIN bookings
       /\ ApplySet(bookings[id], update_data, t).status # bookings[id].status
    THEN 1 ELSE 0

\* update_one(...).modified_count: 1 when the document exists and the $set
\* changes at least one stored value, else 0.
modified_count(id, update_data, t) ==
    IF id \in DOMAIN bookings /\ ApplySet(bookings[id], update_data, t) # bookings[id]
    THEN 1 ELSE 0

\* A faulty delete that keeps the document; C16 tells it from the store's.
delete_one_kept(id) == bookings

\* delete_one({"_id": id}): the collection afterwards
delete_one(id) == [i \in (DOMAIN bookings) \ {id} |-> bookings[i]]

(***************************************************************************)
(* POST /api/bookings                                                      *)
(***************************************************************************)
CreateRoles == {"superadmin", "dispatcher", "hospital_staff"}

\* A faulty document builder that bills the estimate at once; C10 tells it
\* from the handler's.
NewBookingBilled(booking_dict, u, t) ==
    [urgency |-> booking_dict.urgency,
     required_equipment |-> booking_dict.required_equipment,
     status |-> "pending",
     assigned_crew_ids |-> <<>>,
     assigned_aircraft_id |-> Null,
     actual_cost |-> Some(calculate_estimated_cost(booking_dict)),
     flight_duration |-> Null,
     created_at |-> t,
     updated_at |-> t,
     created_by |-> u,
     estimated_cost |-> Some(calculate_estimated_cost(booking_dict))]

\* lines 239-247: the document that is inserted
NewBooking(booking_dict, u, t) ==
    [urgency |-> booking_dict.urgency,
     required_equipment |-> booking_dict.required_equipment,
     status |-> "pending",
     assigned_crew_ids |-> <<>>,
     assigned_aircraft_id |-> Null,
     actual_cost |-> Null,
     flight_duration |-> Null,
     created_at |-> t,
     updated_at |-> t,
     created_by |-> u,
     estimated_cost |-> Some(calculate_estimated_cost(booking_dict))]

\* Faulty dispatches that raise the alarm for urgent bookings too; C13
\* tells them from the handler's.
CreateSendsAlarmed(booking_dict, booking_response, current_user) ==
    <<Notification("created",
                   get_notification_recipients(booking_response, current_user,
                                               "created"))>>
    \o (IF booking_dict.urgency \in {"critical", "urgent"}
        THEN <<Notification("emergency", <<>>)>> ELSE <<>>)

\* lines 257-273: the dispatches of a create, in order
CreateSends(booking_dict, booking_response, current_user) ==
    <<Notification("created",
                   get_notification_recipients(booking_response, current_user,
                                               "created"))>>
    \o (IF booking_dict.urgency = "critical"
        THEN <<Notification("emergency", <<>>)>> ELSE <<>>)

Event(type, status) == [type |-> type, status |-> status]

create_booking(u) ==
    \/ /\ ~get_current_active_user(u) \/ role(u) \notin CreateRoles
       /\ lastOp' = Rejected("Create", u, BadId, PermissionDenied)
       /\ UNCHANGED <<bookings, nextId, now, writes>>
    \/ /\ get_current_active_user(u) /\ role(u) \in CreateRoles
       /\ \E payload \in CreatePayloads :
            /\ ~payload.patient_id_valid      \* ObjectId(patient_id) raises
            /\ lastOp' = Outcome("Create", u, BadId, InternalError, FALSE,
                                 <<>>, FALSE, <<>>, <<>>, payload, <<>>)
       /\ UNCHANGED <<bookings, nextId, now, writes>>
    \/ /\ get_current_active_user(u) /\ role(u) \in CreateRoles
       /\ writes < MaxWrites
       /\ \E payload \in CreatePayloads :
            /\ payload.patient_id_valid
            /\ \E t \in utcnow :
               LET booking_dict ==
                       [BookingCreate(payload) EXCEPT !.required_equipment =
                           normalize_equipment_data(EquipmentMembers(@))]
                   id == nextId + 1
                   b == NewBooking(booking_dict, u, t)
                   sends == CreateSends(booking_dict, b, u)
               IN /\ bookings' = insert_one(id, b)
                  /\ nextId' = id
                  /\ now' = t
                  /\ writes' = writes + 1
                  /\ \E failAt \in 0..Len(sends) :
                       lastOp' = AfterCommit("Create", u, id, sends, failAt,
                                             Event("booking_created", Null),
                                             <<b>>, payload, <<>>)

Create ==
    /\ lastOp.op = "idle"
    /\ UNCHANGED aside
    /\ \E u \in Users : create_booking(u)

(***************************************************************************)
(* PUT /api/bookings/{booking_id}                                          *)
(***************************************************************************)
\* A faulty role list that lets hospital staff update; C4 tells it from the
\* handler's.
UpdateRolesWithStaff == {"superadmin", "dispatcher", "hospital_staff"}

UpdateRoles == {"superadmin", "dispatcher"}

\* A faulty completion rule that prices the flight by the patched urgency
\* and equipment; C9 tells it from the handler's.
CompletedFromPatch(update_data, current_booking, d) ==
    IF update_data.status = Some("completed")
    THEN LET withDuration ==
                 IF IsNull(update_data.flight_duration)
                 THEN [update_data EXCEPT !.flight_duration = Some(d)]
                 ELSE update_data
         IN IF IsNull(withDuration.actual_cost)
            THEN [withDuration EXCEPT !.actual_cost =
                     Some(calculate_actual_cost(
                              ApplySet(current_booking, update_data, 0),
                              Val(withDuration.flight_duration)))]
            ELSE withDuration
    ELSE update_data

\* lines 445-452: completion logic.  d is the value calculate_flight_duration
\* returns when it is called.
Completed(update_data, current_booking, d) ==
    IF update_data.status = Some("completed")
    THEN LET withDuration ==
                 IF IsNull(update_data.flight_duration)
                 THEN [update_data EXCEPT !.flight_duration = Some(d)]
                 ELSE update_data
         IN IF IsNull(withDuration.actual_cost)
            THEN [withDuration EXCEPT !.actual_cost =
                     Some(calculate_actual_cost(current_booking,
                                                Val(withDuration.flight_duration)))]
            ELSE withDuration
    ELSE update_data

\* The values the draw of line 448 can take; a patch that does not reach
\* line 448 draws nothing.
DurationDraws(update_data) ==
    IF update_data.status = Some("completed") /\ IsNull(update_data.flight_duration)
    THEN calculate_flight_duration ELSE {MinFlightDuration}

\* A faulty test that takes every patch naming a status for a change of
\* status; C11 tells it from the handler's.
status_changed_named(update_data, current_booking) ==
    ~IsNull(update_data.status)

\* line 443
status_changed(update_data, current_booking) ==
    /\ ~IsNull(update_data.status)
    /\ Val(update_data.status) # current_booking.status

\* lines 483-502: the dispatches of an update, in order
UpdateSends(update_data, current_booking, booking_response, current_user) ==
    LET recipients == get_notification_recipients(booking_response,
                                                  current_user, "status_change")
    IN IF status_changed(update_data, current_booking)
       THEN <<Notification("status_change", recipients)>>
            \o (IF update_data.status = Some("completed")
                THEN <<Notification("completion", recipients)>> ELSE <<>>)
       ELSE <<>>

update_booking(u, id) ==
    \/ /\ ~get_current_active_user(u) \/ role(u) \notin UpdateRoles
       /\ lastOp' = Rejected("Update", u, BadId, PermissionDenied)
       /\ UNCHANGED <<bookings, nextId, now, writes>>
    \/ /\ get_current_active_user(u) /\ role(u) \in UpdateRoles
       /\ ~is_valid(id)
       /\ lastOp' = Rejected("Update", u, id, ValidationError)
       /\ UNCHANGED <<bookings, nextId, now, writes>>
    \/ /\ get_current_active_user(u) /\ role(u) \in UpdateRoles
       /\ is_valid(id)
       /\ IsNull(find_one(id))
       /\ lastOp' = Rejected("Update", u, id, NotFound)
       /\ UNCHANGED <<bookings, nextId, now, writes>>
    \/ /\ get_current_active_user(u) /\ role(u) \in UpdateRoles
       /\ is_valid(id)
       /\ ~IsNull(find_one(id))
       /\ \E booking_update \in Patches :
          \E d \in DurationDraws(update_data_of(booking_update)), t \in utcnow :
            LET current_booking == Val(find_one(id))
                completed == Completed(update_data_of(booking_update),
                                       current_booking, d)
                update_data ==
                    IF IsNull(completed.required_equipment) THEN completed
                    ELSE [completed EXCEPT !.required_equipment =
                             Some(normalize_equipment_data(
                                      EquipmentMembers(Val(@))))]
                after == update_one(id, update_data, t)
                sends == UpdateSends(update_data, current_booking, after[id], u)
            IN /\ bookings' = after
               /\ now' = t
               /\ UNCHANGED nextId
               /\ \/ /\ modified_count(id, update_data, t) = 0
                     /\ lastOp' = Outcome("Update", u, id, NotFound, FALSE,
                                          <<>>, FALSE, <<>>, <<>>,
                                          booking_update, <<current_booking>>)
                     /\ UNCHANGED writes
                  \/ /\ modified_count(id, update_data, t) = 1
                     /\ writes < MaxWrites
                     /\ writes' = writes + 1
                     /\ \E failAt \in 0..Len(sends) :
                          lastOp' = AfterCommit("Update", u, id, sends, failAt,
                              Event("booking_updated",
                                    IF status_changed(update_data, current_booking)
                                    THEN update_data.status ELSE Null),
                              <<after[id]>>, booking_update, <<current_booking>>)

Update ==
    /\ lastOp.op = "idle"
    /\ UNCHANGED aside
    /\ \E u \in Users, id \in ReqIds : update_booking(u, id)

(***************************************************************************)
(* DELETE /api/bookings/{booking_id}                                       *)
(***************************************************************************)
DeleteRoles == {"superadmin", "dispatcher"}

\* lines 562-571: the dispatch of a delete
DeleteSends(booking_data, current_user) ==
    <<Notification("deleted",
                   get_notification_recipients(booking_data, current_user,
                                               "deleted"))>>

delete_booking(u, id) ==
    \/ /\ ~get_current_active_user(u) \/ role(u) \notin DeleteRoles
       /\ lastOp' = Rejected("Delete", u, BadId, PermissionDenied)
       /\ UNCHANGED <<bookings, nextId, now, writes>>
    \/ /\ get_current_active_user(u) /\ role(u) \in DeleteRoles
       /\ ~is_valid(id)
       /\ lastOp' = Rejected("Delete", u, id, ValidationError)
       /\ UNCHANGED <<bookings, nextId, now, writes>>
    \/ /\ get_current_active_user(u) /\ role(u) \in DeleteRoles
       /\ is_valid(id)
       /\ IsNull(find_one(id))
       /\ lastOp' = Rejected("Delete", u, id, NotFound)
       /\ UNCHANGED <<bookings, nextId, now, writes>>
    \/ /\ get_current_active_user(u) /\ role(u) \in DeleteRoles
       /\ is_valid(id)
       /\ ~IsNull(find_one(id))
       /\ writes < MaxWrites
       /\ bookings' = delete_one(id)
       /\ writes' = writes + 1
       /\ UNCHANGED <<nextId, now>>
       /\ \E failAt \in 0..1 :
            lastOp' = AfterCommit("Delete", u, id, DeleteSends(bookings[id], u),
                                  failAt,
                                  Event("booking_deleted", Null),
                                  <<>>, <<>>, <<bookings[id]>>)

Delete ==
    /\ lastOp.op = "idle"
    /\ UNCHANGED aside
    /\ \E u \in Users, id \in ReqIds : delete_booking(u, id)

(***************************************************************************)
(* PUT /api/bookings/{booking_id}/emergency                                *)
(***************************************************************************)
EscalateRoles == {"superadmin", "dispatcher", "doctor"}

\* A faulty escalation $set that also approves the booking; C3 tells it
\* from the handler's.
EscalationSetWithStatus ==
    [NoPatch EXCEPT !.urgency = Some("critical"), !.status = Some("approved")]

\* lines 623-626: the $set of an escalation
EscalationSet == [NoPatch EXCEPT !.urgency = Some("critical")]

\* lines 635-641: the dispatch of an escalation
EscalateSends == <<Notification("emergency", <<>>)>>

mark_booking_emergency(u, id) ==
    \/ /\ ~get_current_active_user(u) \/ role(u) \notin EscalateRoles
       /\ lastOp' = Rejected("Escalate", u, BadId, PermissionDenied)
       /\ UNCHANGED <<bookings, nextId, now, writes>>
    \/ /\ get_current_active_user(u) /\ role(u) \in EscalateRoles
       /\ ~is_valid(id)
       /\ lastOp' = Rejected("Escalate", u, id, ValidationError)
       /\ UNCHANGED <<bookings, nextId, now, writes>>
    \/ /\ get_current_active_user(u) /\ role(u) \in EscalateRoles
       /\ is_valid(id)
       /\ IsNull(find_one(id))
       /\ lastOp' = Rejected("Escalate", u, id, NotFound)
       /\ UNCHANGED <<bookings, nextId, now, writes>>
    \/ /\ get_current_active_user(u) /\ role(u) \in EscalateRoles
       /\ is_valid(id)
       /\ ~IsNull(find_one(id))
       /\ \E t \in utcnow :
          LET booking_data == Val(find_one(id))
              after == update_one(id, EscalationSet, t)
          IN /\ bookings' = after
             /\ now' = t
             /\ UNCHANGED nextId
             /\ \/ /\ modified_count(id, EscalationSet, t) = 0
                   /\ lastOp' = Outcome("Escalate", u, id, NotFound, FALSE,
                                        <<>>, FALSE, <<>>, <<>>, <<>>,
                                        <<booking_data>>)
                   /\ UNCHANGED writes
                \/ /\ modified_count(id, EscalationSet, t) = 1
                   /\ writes < MaxWrites
                   /\ writes' = writes + 1
                   /\ \E failAt \in 0..1 :
                        lastOp' = AfterCommit("Escalate", u, id, EscalateSends,
                                              failAt,
                                              Event("emergency_alert", Null),
                                              <<after[id]>>, <<>>,
                                              <<booking_data>>)

Escalate ==
    /\ lastOp.op = "idle"
    /\ UNCHANGED aside
    /\ \E u \in Users, id \in ReqIds : mark_booking_emergency(u, id)

(***************************************************************************)
(* GET /api/bookings/{booking_id}                                          *)
(***************************************************************************)
get_booking(u, id) ==
    \/ /\ ~get_current_active_user(u)
       /\ lastOp' = Rejected("Get", u, BadId, PermissionDenied)
    \/ /\ get_current_active_user(u)
       /\ ~is_valid(id)
       /\ lastOp' = Rejected("Get", u, id, ValidationError)
    \/ /\ get_current_active_user(u)
       /\ is_valid(id)
       /\ IsNull(find_one(id))
       /\ lastOp' = Rejected("Get", u, id, NotFound)
    \/ /\ get_current_active_user(u)
       /\ is_valid(id)
       /\ ~IsNull(find_one(id))
       /\ role(u) = "hospital_staff"
       /\ Val(find_one(id)).created_by # u
       /\ lastOp' = Rejected("Get", u, id, PermissionDenied)
    \/ /\ get_current_active_user(u)
       /\ is_valid(id)
       /\ ~IsNull(find_one(id))
       /\ ~(role(u) = "hospital_staff" /\ Val(find_one(id)).created_by # u)
       /\ lastOp' = Outcome("Get", u, id, Ok, FALSE, <<>>, FALSE, <<>>,
                            find_one(id), <<>>, <<>>)

\* A faulty Get that stamps the booking it reads; C22 tells it from the
\* handler's.
GetTouching ==
    /\ lastOp.op = "idle"
    /\ UNCHANGED aside
    /\ UNCHANGED <<nextId, now, writes>>
    /\ \E u \in Users, id \in ReqIds :
         /\ get_booking(u, id)
         /\ bookings' = [i \in DOMAIN bookings |->
                            IF i = id
                            THEN [bookings[i] EXCEPT !.updated_at = @ + 1]
                            ELSE bookings[i]]

Get ==
    /\ lastOp.op = "idle"
    /\ UNCHANGED aside
    /\ UNCHANGED <<bookings, nextId, now, writes>>
    /\ \E u \in Users, id \in ReqIds : get_booking(u, id)

(***************************************************************************)
(* GET /api/bookings                                                       *)
(***************************************************************************)
\* The query parameters that are tried (a limit of 0 is no limit).
StatusFilters == {Null, Some("pending")}
Pages == {[skip |-> 0, limit |-> 0], [skip |-> 0, limit |-> 1],
          [skip |-> 1, limit |-> 1]}

\* A faulty query without the creator filter; C6 tells it from the
\* handler's.
QueryAnyCreator(u, status) ==
    {id \in DOMAIN bookings :
        /\ IsNull(status) \/ bookings[id].status = Val(status)
        /\ role(u) \in {"doctor", "paramedic"} =>
               bookings[id].urgency \in {"critical", "urgent"}}

\* A faulty query that filters by urgency for doctors only; C7 tells it
\* from the handler's.
QueryAnyUrgency(u, status) ==
    {id \in DOMAIN bookings :
        /\ IsNull(status) \/ bookings[id].status = Val(status)
        /\ role(u) = "hospital_staff" => bookings[id].created_by = u
        /\ role(u) = "doctor" =>
               bookings[id].urgency \in {"critical", "urgent"}}

\* lines 304-315: the query document, as the predicate it selects by
Query(u, status) ==
    {id \in DOMAIN bookings :
        /\ IsNull(status) \/ bookings[id].status = Val(status)
        /\ role(u) = "hospital_staff" => bookings[id].created_by = u
        /\ role(u) \in {"doctor", "paramedic"} =>
               bookings[id].urgency \in {"critical", "urgent"}}

\* .sort("created_at", -1): every order of the selected ids that is
\* descending in created_at (the store fixes no order among equal keys)
Sorted(ids) ==
    {s \in [1..Cardinality(ids) -> ids] :
        /\ \A i, j \in 1..Cardinality(ids) : i # j => s[i] # s[j]
        /\ \A i, j \in 1..Cardinality(ids) :
               i < j => bookings[s[i]].created_at >= bookings[s[j]].created_at}

\* .skip(skip).limit(limit); a limit of 0 is no limit
Page(s, skip, limit) ==
    SubSeq(s, skip + 1,
           IF limit = 0 \/ skip + limit > Len(s) THEN Len(s) ELSE skip + limit)

get_bookings(u, status, skip, limit) ==
    \/ /\ ~get_current_active_user(u)
       /\ lastOp' = Rejected("List", u, BadId, PermissionDenied)
    \/ /\ get_current_active_user(u)
       /\ \E s \in Sorted(Query(u, status)) :
            lastOp' = Outcome("List", u, BadId, Ok, FALSE, <<>>, FALSE, <<>>,
                              Page(s, skip, limit),
                              [status |-> status, skip |-> skip, limit |-> limit],
                              <<>>)

List ==
    /\ lastOp.op = "idle"
    /\ UNCHANGED aside
    /\ UNCHANGED <<bookings, nextId, now, writes>>
    /\ \E u \in Users, status \in StatusFilters, page \in Pages :
         get_bookings(u, status, page.skip, page.limit)

Next ==
    \/ Create
    \/ List
    \/ Get
    \/ Update
    \/ Delete
    \/ Escalate
    \/ Respond

Spec == Init /\ [][Next]_vars

(***************************************************************************)
(* The history of one booking at a time: requests by a dispatcher (and     *)
(* escalations by a doctor too), a Create only while the collection is     *)
(* empty, and one committed mutation more than MaxWrites, which the count  *)
(* starting at -1 stands for.                                              *)
(***************************************************************************)
InitOne ==
    /\ bookings = <<>>
    /\ nextId = 0
    /\ now = 0
    /\ writes = -1
    /\ lastOp = Idle
    /\ AsideInit

CreateOne ==
    /\ lastOp.op = "idle"
    /\ UNCHANGED aside
    /\ DOMAIN bookings = {}
    /\ create_booking("disp")

UpdateOne ==
    /\ lastOp.op = "idle"
    /\ UNCHANGED aside
    /\ \E id \in ReqIds : update_booking("disp", id)

DeleteOne ==
    /\ lastOp.op = "idle"
    /\ UNCHANGED aside
    /\ \E id \in ReqIds : delete_booking("disp", id)

EscalateOne ==
    /\ lastOp.op = "idle"
    /\ UNCHANGED aside
    /\ \E u \in {"disp", "doc"}, id \in ReqIds : mark_booking_emergency(u, id)

GetOne ==
    /\ lastOp.op = "idle"
    /\ UNCHANGED aside
    /\ UNCHANGED <<bookings, nextId, now, writes>>
    /\ \E id \in ReqIds : get_booking("disp", id)

NextOne ==
    \/ CreateOne
    \/ GetOne
    \/ UpdateOne
    \/ DeleteOne
    \/ EscalateOne
    \/ Respond

SpecOne == InitOne /\ [][NextOne]_vars

(***************************************************************************)
(* A call of normalize_equipment_data on its own.                          *)
(***************************************************************************)
\* The elements tried: strings as a client may spell them, a member of the
\* enum, and an object that is neither (a number).
EcgMonitorStr ==
    [kind |-> "str",
     text |-> <<"E", "C", "G", " ", "M", "o", "n", "i", "t", "o", "r">>]
VentilatorStr ==
    [kind |-> "str",
     text |-> <<"v", "e", "n", "t", "i", "l", "a", "t", "o", "r">>]
PortableVentilatorStr ==
    [kind |-> "str",
     text |-> <<"P", "o", "r", "t", "a", "b", "l", "e", " ", "V", "e", "n", "t", "i", "l", "a", "t", "o", "r">>]
HeartMonitorStr ==
    [kind |-> "str",
     text |-> <<"h", "e", "a", "r", "t", " ", "m", "o", "n", "i", "t", "o", "r">>]
DefibUnitStr ==
    [kind |-> "str",
     text |-> <<"D", "e", "f", "i", "b", " ", "u", "n", "i", "t">>]
OxygenTankStr ==
    [kind |-> "str",
     text |-> <<"O", "x", "y", "g", "e", "n", " ", "t", "a", "n", "k">>]
InfusionSetStr ==
    [kind |-> "str",
     text |-> <<"i", "n", "f", "u", "s", "i", "o", "n", " ", "s", "e", "t">>]
PatientLiftStr ==
    [kind |-> "str",
     text |-> <<"p", "a", "t", "i", "e", "n", "t", " ", "l", "i", "f", "t">>]
PatientMonitorStr ==
    [kind |-> "str",
     text |-> <<"P", "a", "t", "i", "e", "n", "t", " ", "M", "o", "n", "i", "t", "o", "r">>]
StretcherStr ==
    [kind |-> "str",
     text |-> <<"s", "t", "r", "e", "t", "c", "h", "e", "r">>]
DefibrillatorMember == [kind |-> "enum", text |-> EquipmentValue("defibrillator")]
NumberLabel == [kind |-> "other", text |-> <<>>]

Labels ==
    {EcgMonitorStr, VentilatorStr, PortableVentilatorStr, HeartMonitorStr,
     DefibUnitStr, OxygenTankStr, InfusionSetStr, PatientLiftStr,
     PatientMonitorStr, StretcherStr, DefibrillatorMember, NumberLabel}

LabelLists == UNION {[1..n -> Labels] : n \in 0..MaxLabels}

InitNormalize ==
    /\ equipment_arg \in LabelLists
    /\ equipment_result = Null
    /\ recipients_arg = NoResolution
    /\ recipients_result = Null
    /\ requests = <<>>
    /\ bookings = <<>>
    /\ nextId = 0
    /\ now = 0
    /\ writes = 0
    /\ lastOp = Idle
    /\ active_connections = <<>>
    /\ connected = 0
    /\ closed = {}
    /\ broadcasting = NoBroadcast

Normalize ==
    /\ IsNull(equipment_result)
    /\ equipment_result' = Some(normalize_equipment_data(equipment_arg))
    /\ UNCHANGED <<bookings, nextId, now, writes, lastOp, equipment_arg,
                   recipients_arg, recipients_result, requests,
                   active_connections, connected, closed, broadcasting>>

NextNormalize == Normalize

SpecNormalize == InitNormalize /\ [][NextNormalize]_vars

(***************************************************************************)
(* The recipient resolver on its own: one call of                          *)
(* get_notification_recipients on a booking of any urgency, for any        *)
(* active actor and any action, with the users collection answering or     *)
(* its find raising (the store cannot be reached).                         *)
(***************************************************************************)
\* The actions the handlers pass (lines 258, 485, 563) and the two others
\* the resolver names (line 99).
Actions == {"created", "status_change", "deleted", "updated", "emergency"}

Resolutions ==
    [urgency : AcuityLevel,
     current_user : {u \in Users : get_current_active_user(u)},
     action : Actions,
     find_raises : BOOLEAN]

InitRecipients ==
    /\ recipients_arg \in Resolutions
    /\ recipients_result = Null
    /\ requests = <<>>
    /\ equipment_arg = <<>>
    /\ equipment_result = Null
    /\ bookings = <<>>
    /\ nextId = 0
    /\ now = 0
    /\ writes = 0
    /\ lastOp = Idle
    /\ active_connections = <<>>
    /\ connected = 0
    /\ closed = {}
    /\ broadcasting = NoBroadcast

\* A find is made when the action or the urgency asks for one; when it
\* raises, the except clause answers.
Resolve ==
    /\ IsNull(recipients_result)
    /\ recipients_result' =
           Some(IF /\ recipients_arg.find_raises
                   /\ \/ recipients_arg.action \in {"created", "updated", "emergency"}
                      \/ recipients_arg.urgency = "critical"
                THEN recipients_on_error(recipients_arg.current_user)
                ELSE get_notification_recipients(
                         [urgency |-> recipients_arg.urgency],
                         recipients_arg.current_user, recipients_arg.action))
    /\ UNCHANGED <<bookings, nextId, now, writes, lastOp, equipment_arg,
                   equipment_result, recipients_arg, requests,
                   active_connections, connected, closed, broadcasting>>

NextRecipients == Resolve

SpecRecipients == InitRecipients /\ [][NextRecipients]_vars

(***************************************************************************)
(* ConnectionManager and the websocket endpoint.  A websocket is the       *)
(* number of its connection; the event loop runs one task at a time and    *)
(* changes task only where a task awaits, so broadcast is two steps: from  *)
(* its call to its first send_text, and from one send_text's return to the *)
(* next send_text or to its end.  While it is suspended in a send_text,    *)
(* endpoint tasks connect and disconnect.                                  *)
(*                                                                         *)
(* broadcasting: pc, the place of the call; it, the items the list         *)
(* iterator has handed out; connection, the websocket being sent to;       *)
(* disconnected_connections, as in the code; and for the properties:       *)
(* attempted, the websockets send_text was called on, start, the list at   *)
(* the call, disturbed, whether the list was changed by another task since.*)
(***************************************************************************)
Connected(connections, websocket) ==
    \E i \in 1..Len(connections) : connections[i] = websocket

\* A faulty disconnect that removes nothing; C18 tells it from the
\* manager's.
disconnect_none(connections, websocket) == connections

\* ConnectionManager.disconnect: list.remove takes out the first occurrence
disconnect(connections, websocket) ==
    IF Connected(connections, websocket)
    THEN LET i == CHOOSE k \in 1..Len(connections) :
                      /\ connections[k] = websocket
                      /\ \A j \in 1..(k - 1) : connections[j] # websocket
         IN SubSeq(connections, 1, i - 1)
                \o SubSeq(connections, i + 1, Len(connections))
    ELSE connections

\* lines 62-63: for connection in disconnected_connections: disconnect
RECURSIVE sweep(_, _)
sweep(connections, disconnected_connections) ==
    IF disconnected_connections = <<>> THEN connections
    ELSE sweep(disconnect(connections, Head(disconnected_connections)),
               Tail(disconnected_connections))

\* The for loop asks the list iterator for its next item: the item at the
\* iterator's index in the list as it is now, or the end of the loop.
next_connection(b) ==
    IF b.it < Len(active_connections)
    THEN [b EXCEPT !.pc = "sending",
                   !.it = @ + 1,
                   !.connection = active_connections[b.it + 1],
                   !.attempted = Append(@, active_connections[b.it + 1])]
    ELSE [b EXCEPT !.pc = "done", !.connection = 0]

\* broadcast from the point where b goes on, up to its next await or end
run_broadcast(b) ==
    /\ broadcasting' = next_connection(b)
    /\ active_connections' =
           IF next_connection(b).pc = "done"
           THEN sweep(active_connections, b.disconnected_connections)
           ELSE active_connections

Disturbed(b) == IF b.pc = "idle" THEN b ELSE [b EXCEPT !.disturbed = TRUE]

\* websocket_endpoint: manager.connect(websocket)
Connect ==
    /\ connected < MaxSockets
    /\ connected' = connected + 1
    /\ active_connections' = Append(active_connections, connected + 1)
    /\ broadcasting' = Disturbed(broadcasting)
    /\ UNCHANGED <<bookings, nextId, now, writes, lastOp, equipment_arg,
                   equipment_result, recipients_arg, recipients_result,
                   requests,
                   closed>>

\* websocket_endpoint: WebSocketDisconnect, manager.disconnect(websocket)
Disconnect ==
    /\ \E websocket \in (1..connected) \ closed :
         /\ closed' = closed \cup {websocket}
         /\ active_connections' = disconnect(active_connections, websocket)
    /\ broadcasting' = Disturbed(broadcasting)
    /\ UNCHANGED <<bookings, nextId, now, writes, lastOp, equipment_arg,
                   equipment_result, recipients_arg, recipients_result,
                   requests,
                   connected>>

\* manager.broadcast(message) is called
BroadcastStart ==
    /\ broadcasting.pc = "idle"
    /\ run_broadcast([NoBroadcast EXCEPT !.start = active_connections])
    /\ UNCHANGED <<bookings, nextId, now, writes, lastOp, equipment_arg,
                   equipment_result, recipients_arg, recipients_result,
                   requests,
                   connected, closed>>

\* send_text returns (ok) or raises, and the loop goes on
BroadcastResume ==
    /\ broadcasting.pc = "sending"
    /\ \E ok \in BOOLEAN :
         run_broadcast([broadcasting EXCEPT !.disconnected_connections =
                           IF ok THEN @ ELSE Append(@, broadcasting.connection)])
    /\ UNCHANGED <<bookings, nextId, now, writes, lastOp, equipment_arg,
                   equipment_result, recipients_arg, recipients_result,
                   requests,
                   connected, closed>>

\* broadcast has returned to the handler that called it
BroadcastReturn ==
    /\ broadcasting.pc = "done"
    /\ broadcasting' = NoBroadcast
    /\ UNCHANGED <<bookings, nextId, now, writes, lastOp, equipment_arg,
                   equipment_result, recipients_arg, recipients_result,
                   requests,
                   active_connections, connected, closed>>

NextBroadcast ==
    \/ Connect
    \/ Disconnect
    \/ BroadcastStart
    \/ BroadcastResume
    \/ BroadcastReturn

SpecBroadcast == Init /\ [][NextBroadcast]_vars

(***************************************************************************)
(* Requests in flight together on one booking.  The handlers call the      *)
(* store synchronously and hold no lock or transaction over their calls;   *)
(* the store is a database server that every server process (and the       *)
(* maintenance scripts of the repository) reaches on its own.  A step here *)
(* is one store call with the handler code up to the next one; the steps   *)
(* of handlers running in different processes interleave freely.  The      *)
(* requests are a dispatcher's, on the booking with id RaceId, which was   *)
(* created before the run.                                                 *)
(***************************************************************************)
RaceId == 1

\* delete_one(...).deleted_count
deleted_count(id) == IF id \in DOMAIN bookings THEN 1 ELSE 0

InitRace ==
    /\ \E fields \in CreateFields :
         bookings = <<NewBooking(fields, "disp", 1)>>
    /\ nextId = RaceId
    /\ now = 1
    /\ writes = 0
    /\ lastOp = Idle
    /\ requests = NoRequests
    /\ equipment_arg = <<>>
    /\ equipment_result = Null
    /\ recipients_arg = NoResolution
    /\ recipients_result = Null
    /\ active_connections = <<>>
    /\ connected = 0
    /\ closed = {}
    /\ broadcasting = NoBroadcast

\* The request arrives and the handler runs to its first find_one
\* (lines 427-429, 545-547, 610-612).  The slots are taken in order.
RaceFind ==
    /\ \E k \in Tasks :
         /\ requests[k].pc = "none"
         /\ \A j \in 1..(k - 1) : requests[j].pc # "none"
         /\ \E op \in {"Update", "Delete", "Escalate"} :
            \E booking_update \in
                   IF op = "Update" THEN Patches
                   ELSE IF op = "Escalate" THEN {EscalationSet} ELSE {NoPatch} :
              requests' = [requests EXCEPT ![k] =
                  IF IsNull(find_one(RaceId))
                  THEN [@ EXCEPT !.pc = "done", !.op = op,
                                 !.booking_update = booking_update,
                                 !.result = NotFound]
                  ELSE [@ EXCEPT !.pc = "found", !.op = op,
                                 !.booking_update = booking_update,
                                 !.current_booking = find_one(RaceId)]]
    /\ UNCHANGED <<bookings, nextId, now, writes, lastOp, equipment_arg,
                   equipment_result, recipients_arg, recipients_result,
                   active_connections, connected, closed, broadcasting>>

\* update_booking lines 438-468 and mark_booking_emergency lines 623-626:
\* the $set is built from what was read, and stamped with the clock.
RacePrepare ==
    /\ \E k \in Tasks :
         /\ requests[k].pc = "found"
         /\ requests[k].op \in {"Update", "Escalate"}
         /\ \E d \in DurationDraws(update_data_of(requests[k].booking_update)),
               t \in utcnow :
              LET completed ==
                      Completed(update_data_of(requests[k].booking_update),
                                Val(requests[k].current_booking), d)
                  update_data ==
                      IF IsNull(completed.required_equipment) THEN completed
                      ELSE [completed EXCEPT !.required_equipment =
                               Some(normalize_equipment_data(
                                        EquipmentMembers(Val(@))))]
              IN /\ requests' = [requests EXCEPT ![k] =
                        [@ EXCEPT !.pc = "prepared",
                                  !.update_data = update_data,
                                  !.updated_at = t]]
                 /\ now' = t
    /\ UNCHANGED <<bookings, nextId, writes, lastOp, equipment_arg,
                   equipment_result, recipients_arg, recipients_result,
                   active_connections, connected, closed, broadcasting>>

\* update_one and the test of modified_count (lines 471-477, 620-630)
RaceWrite ==
    /\ \E k \in Tasks :
         /\ requests[k].pc = "prepared"
         /\ bookings' = update_one(RaceId, requests[k].update_data,
                                   requests[k].updated_at)
         /\ IF modified_count(RaceId, requests[k].update_data,
                              requests[k].updated_at) = 0
            THEN /\ requests' = [requests EXCEPT ![k] =
                        [@ EXCEPT !.pc = "done", !.result = NotFound]]
                 /\ UNCHANGED writes
            ELSE /\ requests' = [requests EXCEPT ![k] =
                        [@ EXCEPT !.pc = "written", !.committed = TRUE,
                                  !.before = find_one(RaceId),
                                  !.wrote = writes + 1]]
                 /\ writes' = writes + 1
    /\ UNCHANGED <<nextId, now, lastOp, equipment_arg,
                   equipment_result, recipients_arg, recipients_result,
                   active_connections, connected, closed, broadcasting>>

\* The second find_one and what follows it (lines 480-514, 632-653):
\* convert_booking_data raises on None; else the dispatches, the broadcast
\* and the response.
RaceReread ==
    /\ \E k \in Tasks :
         /\ requests[k].pc = "written"
         /\ IF IsNull(find_one(RaceId))
            THEN requests' = [requests EXCEPT ![k] =
                     [@ EXCEPT !.pc = "done", !.result = InternalError]]
            ELSE LET current_booking == Val(requests[k].current_booking)
                     update_data == requests[k].update_data
                     sends ==
                         IF requests[k].op = "Update"
                         THEN UpdateSends(update_data, current_booking,
                                          Val(find_one(RaceId)), "disp")
                         ELSE EscalateSends
                     event ==
                         IF requests[k].op = "Update"
                         THEN Event("booking_updated",
                                    IF status_changed(update_data, current_booking)
                                    THEN update_data.status ELSE Null)
                         ELSE Event("emergency_alert", Null)
                 IN \E failAt \in 0..Len(sends) :
                      requests' = [requests EXCEPT ![k] =
                          [@ EXCEPT
                              !.pc = "done",
                              !.result = ResultAfter(SendRaised(sends, failAt)),
                              !.notes = Dispatched(sends, failAt),
                              !.raised = SendRaised(sends, failAt),
                              !.bcasts = IF SendRaised(sends, failAt)
                                         THEN <<>> ELSE <<event>>,
                              !.resp = IF SendRaised(sends, failAt)
                                       THEN Null ELSE find_one(RaceId)]]
    /\ UNCHANGED <<bookings, nextId, now, writes, lastOp, equipment_arg,
                   equipment_result, recipients_arg, recipients_result,
                   active_connections, connected, closed, broadcasting>>

\* delete_one, the test of deleted_count and what follows it
\* (lines 557-582)
RaceDelete ==
    /\ \E k \in Tasks :
         /\ requests[k].pc = "found"
         /\ requests[k].op = "Delete"
         /\ bookings' = delete_one(RaceId)
         /\ IF deleted_count(RaceId) = 0
            THEN /\ requests' = [requests EXCEPT ![k] =
                        [@ EXCEPT !.pc = "done", !.result = NotFound]]
                 /\ UNCHANGED writes
            ELSE /\ writes' = writes + 1
                 /\ LET sends == DeleteSends(Val(requests[k].current_booking),
                                             "disp")
                    IN \E failAt \in 0..Len(sends) :
                         requests' = [requests EXCEPT ![k] =
                             [@ EXCEPT
                                 !.pc = "done", !.committed = TRUE,
                                 !.before = find_one(RaceId),
                                 !.wrote = writes + 1,
                                 !.result = ResultAfter(SendRaised(sends, failAt)),
                                 !.notes = Dispatched(sends, failAt),
                                 !.raised = SendRaised(sends, failAt),
                                 !.bcasts = IF SendRaised(sends, failAt)
                                            THEN <<>>
                                            ELSE <<Event("booking_deleted", Null)>>]]
    /\ UNCHANGED <<nextId, now, lastOp, equipment_arg,
                   equipment_result, recipients_arg, recipients_result,
                   active_connections, connected, closed, broadcasting>>

NextRace ==
    \/ RaceFind
    \/ RacePrepare
    \/ RaceWrite
    \/ RaceReread
    \/ RaceDelete

SpecRace == InitRace /\ [][NextRace]_vars

TypeOK ==
    /\ nextId \in 0..MaxWrites
    /\ writes \in -1..MaxWrites
    /\ now \in 0..(writes + 1)
    /\ DOMAIN bookings \subseteq 1..nextId
    /\ \A id \in DOMAIN bookings :
         /\ bookings[id].status \in BookingStatus
         /\ bookings[id].urgency \in AcuityLevel
         /\ bookings[id].created_by \in Users

(***************************************************************************)
(* Properties of the lifecycle engine.                                     *)
(***************************************************************************)
Mutators == {"Create", "Update", "Delete", "Escalate"}

\* The booking a committed Create, Update or Escalate has just written.
Written == bookings[lastOp.id]

\* The urgency multipliers of the specification, in tenths.
SpecMultiplier(u) ==
    CASE u = "critical" -> 15 [] u = "urgent" -> 12 [] u = "stable" -> 10

\* The elements of a sequence.
Elements(s) == {s[i] : i \in 1..Len(s)}

\* C1: when the store mutation of a Create, Update, Delete or Escalate has
\* committed and a later notification dispatch fails, the operation still
\* reports success to its caller.
C1_DispatchFailureReportsSuccess ==
    (lastOp.op \in Mutators /\ lastOp.committed /\ lastOp.raised)
        => lastOp.result = Ok

\* C2: every stored booking whose actual_cost or flight_duration is
\* non-null has status completed.
C2_CostOnlyWhenCompleted ==
    \A id \in DOMAIN bookings :
        (~IsNull(bookings[id].actual_cost) \/ ~IsNull(bookings[id].flight_duration))
            => bookings[id].status = "completed"

\* One step forward along the lifecycle, or a cancellation of a booking
\* that is neither completed nor cancelled.
OneStep(from, to) ==
    \/ <<from, to>> \in {<<"pending", "approved">>, <<"approved", "scheduled">>,
                         <<"scheduled", "en_route">>, <<"en_route", "completed">>}
    \/ to = "cancelled" /\ from \notin {"completed", "cancelled"}

C5_FailureLeavesNoTrace ==
    [][(/\ lastOp'.op \in Mutators \cup {"Get"}
        /\ lastOp'.result \in {PermissionDenied, NotFound, ValidationError})
           => /\ bookings' = bookings
              /\ lastOp'.notes = <<>>
              /\ lastOp'.bcasts = <<>>]_vars

\* A Delete of a well-formed id that no stored booking has was answered
\* NotFound, with bookings in the store.
C5_Witness ==
    /\ lastOp.op = "Delete"
    /\ lastOp.result = NotFound
    /\ is_valid(lastOp.id)
    /\ DOMAIN bookings # {}

\* C6: a List by hospital staff returns only bookings they created, for
\* every status filter, skip and limit, and a Get by hospital staff of a
\* booking somebody else created fails with PermissionDenied.
C6_HospitalStaffIsolation ==
    /\ (lastOp.op = "List" /\ lastOp.result = Ok
            /\ role(lastOp.actor) = "hospital_staff")
           => \A id \in Elements(lastOp.resp) :
                  bookings[id].created_by = lastOp.actor
    /\ (lastOp.op = "Get" /\ role(lastOp.actor) = "hospital_staff"
            /\ lastOp.id \in DOMAIN bookings
            /\ bookings[lastOp.id].created_by # lastOp.actor)
           => lastOp.result = PermissionDenied

\* Hospital staff have listed their bookings while the store also holds a
\* booking somebody else created.
C6_Witness ==
    /\ lastOp.op = "List"
    /\ lastOp.result = Ok
    /\ lastOp.actor = "hs1"
    /\ lastOp.resp # <<>>
    /\ \E id \in DOMAIN bookings : bookings[id].created_by # "hs1"

\* The number of documents a query that matches n returns after skip and
\* limit (a limit of 0 is no limit).
PageSize(n, skip, limit) ==
    LET rest == IF n > skip THEN n - skip ELSE 0
    IN IF limit = 0 \/ limit > rest THEN rest ELSE limit

\* C7: a List by a doctor or paramedic returns only critical or urgent
\* bookings, for every status filter; a List by a role other than
\* hospital_staff, doctor and paramedic returns every stored booking that
\* matches the optional status filter (the whole of them when the request
\* skips none and sets no limit, else the page asked for).
C7_ListByRole ==
    (lastOp.op = "List" /\ lastOp.result = Ok) =>
        LET matching ==
                {id \in DOMAIN bookings :
                    IsNull(lastOp.arg.status)
                        \/ bookings[id].status = Val(lastOp.arg.status)}
            returned == Elements(lastOp.resp)
        IN /\ role(lastOp.actor) \in {"doctor", "paramedic"}
                  => \A id \in returned :
                         bookings[id].urgency \in {"critical", "urgent"}
           /\ role(lastOp.actor) \notin {"hospital_staff", "doctor", "paramedic"}
                  => /\ returned \subseteq matching
                     /\ Cardinality(returned) = Len(lastOp.resp)
                     /\ Len(lastOp.resp) =
                            PageSize(Cardinality(matching), lastOp.arg.skip,
                                     lastOp.arg.limit)

\* A paramedic has listed bookings and got some, while the store also
\* holds a stable one.
C7_Witness ==
    /\ lastOp.op = "List"
    /\ lastOp.result = Ok
    /\ lastOp.actor = "para"
    /\ lastOp.resp # <<>>
    /\ \E id \in DOMAIN bookings : bookings[id].urgency = "stable"

\* C8: the estimated_cost a Create stores is 5000 x multiplier(urgency)
\* + 500 x the number of distinct equipment types of the booking, and is
\* at least 5000.
C8_EstimateCountsDistinctEquipment ==
    (lastOp.op = "Create" /\ lastOp.committed) =>
        /\ Written.estimated_cost =
               Some((5000 * SpecMultiplier(Written.urgency)) \div 10
                    + 500 * Cardinality(Elements(Written.required_equipment)))
        /\ Val(Written.estimated_cost) >= 5000

\* C9: an Update whose patch sets status to completed and carries neither
\* flight_duration nor actual_cost stores a flight_duration d in 30..180
\* and actual_cost = 100 x d x multiplier(u) + 500 x n, u and n being the
\* urgency and the equipment count the booking had in the store before the
\* update, not those of the patch.
C9_CompletionCostFromStored ==
    (/\ lastOp.op = "Update"
     /\ lastOp.committed
     /\ lastOp.arg.status = Some("completed")
     /\ IsNull(lastOp.arg.flight_duration)
     /\ IsNull(lastOp.arg.actual_cost)) =>
        /\ ~IsNull(Written.flight_duration)
        /\ Val(Written.flight_duration) \in 30..180
        /\ Written.actual_cost =
               Some((100 * Val(Written.flight_duration)
                         * SpecMultiplier(Val(lastOp.old).urgency)) \div 10
                    + 500 * Len(Val(lastOp.old).required_equipment))

\* An Update has completed a critical booking with a patch that also
\* lowers the urgency to stable and replaces the equipment list.
C9_Witness ==
    /\ lastOp.op = "Update"
    /\ lastOp.committed
    /\ lastOp.arg.status = Some("completed")
    /\ IsNull(lastOp.arg.flight_duration)
    /\ lastOp.arg.urgency = Some("stable")
    /\ Val(lastOp.old).urgency = "critical"
    /\ Len(Val(lastOp.old).required_equipment) = 2
    /\ Written.urgency = "stable"

\* C10: the booking a Create stores has status pending, an empty crew
\* list, no aircraft, null actual_cost, null flight_duration, a non-null
\* estimated_cost and the actor as created_by, whatever the payload holds.
C10_CreateDefaults ==
    (lastOp.op = "Create" /\ lastOp.committed) =>
        /\ lastOp.id \in DOMAIN bookings
        /\ Written.status = "pending"
        /\ Written.assigned_crew_ids = <<>>
        /\ IsNull(Written.assigned_aircraft_id)
        /\ IsNull(Written.actual_cost)
        /\ IsNull(Written.flight_duration)
        /\ ~IsNull(Written.estimated_cost)
        /\ Written.created_by = lastOp.actor

\* A Create whose payload carries a status of completed has succeeded.
C10_Witness ==
    /\ lastOp.op = "Create"
    /\ lastOp.result = Ok
    /\ lastOp.arg.status = Some("completed")
    /\ lastOp.arg.urgency = "critical"


\* The kinds of the notifications dispatched, in order.
Kinds(notes) == [i \in DOMAIN notes |-> notes[i].kind]

\* C11: a successful Update emits a status-change notification, and its
\* booking_updated broadcast carries a status, exactly when the patch names
\* a status other than the one stored before; it emits one booking_updated
\* broadcast either way; and a pending -> approved update with no other
\* field leaves actual_cost and flight_duration as they were (null stays
\* null).
C11_StatusChangeNotified ==
    (lastOp.op = "Update" /\ lastOp.result = Ok) =>
        LET changed == /\ ~IsNull(lastOp.arg.status)
                       /\ Val(lastOp.arg.status) # Val(lastOp.old).status
        IN /\ ("status_change" \in Elements(Kinds(lastOp.notes))) <=> changed
           /\ Len(lastOp.bcasts) = 1
           /\ lastOp.bcasts[1].type = "booking_updated"
           /\ ~IsNull(lastOp.bcasts[1].status) <=> changed
           /\ changed => lastOp.bcasts[1].status = lastOp.arg.status
           /\ (/\ Val(lastOp.old).status = "pending"
               /\ lastOp.arg = [NoPatch EXCEPT !.status = Some("approved")])
                  => /\ "status_change" \in Elements(Kinds(lastOp.notes))
                     /\ Written.actual_cost = Val(lastOp.old).actual_cost
                     /\ Written.flight_duration = Val(lastOp.old).flight_duration

\* An Update has approved a pending booking that had no cost yet, with a
\* patch that names the status only.
C11_Witness ==
    /\ lastOp.op = "Update"
    /\ lastOp.result = Ok
    /\ Val(lastOp.old).status = "pending"
    /\ lastOp.arg = [NoPatch EXCEPT !.status = Some("approved")]
    /\ Kinds(lastOp.notes) = <<"status_change">>
    /\ IsNull(Written.actual_cost)
    /\ IsNull(Written.flight_duration)

C14_CreatedRecipients ==
    (lastOp.op = "Create" /\ lastOp.committed /\ lastOp.notes # <<>>) =>
        Elements(lastOp.notes[1].recipients) =
            {lastOp.actor} \cup
            {u \in Users :
                /\ is_active(u)
                /\ role(u) \in {"dispatcher", "superadmin", "airline_coordinator"}}


\* C12: every successful Update whose patch sets status to completed emits
\* a completion notification, apart from and after the status-change
\* notification.
C12_CompletionNotified ==
    (/\ lastOp.op = "Update"
     /\ lastOp.result = Ok
     /\ lastOp.arg.status = Some("completed"))
        => Kinds(lastOp.notes) = <<"status_change", "completion">>

\* C15: an Escalate by an allowed role on an existing booking leaves the
\* stored urgency critical and emits one emergency alert and one
\* emergency_alert broadcast, also when the booking was critical already
\* and when it is escalated again.  (Runs in which the alert itself raises
\* are left aside: they are C1's.)
C15_EscalateAlwaysAlerts ==
    (/\ lastOp.op = "Escalate"
     /\ is_active(lastOp.actor)
     /\ role(lastOp.actor) \in {"superadmin", "dispatcher", "doctor"}
     /\ lastOp.id \in DOMAIN bookings
     /\ ~lastOp.raised)
        => /\ Written.urgency = "critical"
           /\ Kinds(lastOp.notes) = <<"emergency">>
           /\ Len(lastOp.bcasts) = 1
           /\ lastOp.bcasts[1].type = "emergency_alert"

\* C16: a successful Delete removes the booking and emits one 'deleted'
\* notification and one booking_deleted broadcast; a booking id that has
\* been deleted is never stored again, and every Get, Update, Escalate and
\* Delete that looks it up is answered NotFound.
C16_DeleteIsPermanent ==
    [][/\ (lastOp.op = "idle" /\ lastOp'.op = "Delete" /\ lastOp'.result = Ok)
          => /\ lastOp'.id \in DOMAIN bookings
             /\ lastOp'.id \notin DOMAIN bookings'
             /\ Kinds(lastOp'.notes) = <<"deleted">>
             /\ Len(lastOp'.bcasts) = 1
             /\ lastOp'.bcasts[1].type = "booking_deleted"
       /\ \A id \in 1..nextId :
            id \notin DOMAIN bookings
               => /\ id \notin DOMAIN bookings'
                  /\ (/\ lastOp.op = "idle"
                      /\ lastOp'.op \in {"Get", "Update", "Escalate", "Delete"}
                      /\ lastOp'.id = id)
                         => lastOp'.result = NotFound]_vars

\* A Get of a deleted booking's id was answered NotFound after a later
\* Create had stored another booking.
C16_Witness ==
    /\ lastOp.op = "Get"
    /\ lastOp.result = NotFound
    /\ lastOp.id \in 1..nextId
    /\ lastOp.id \notin DOMAIN bookings
    /\ DOMAIN bookings # {}


\* C20: the estimated_cost, created_by, created_at and id of a stored
\* booking never change: whatever Update and Escalate do to a booking, it
\* keeps all four, also when its urgency or required_equipment change.
C20_CreationFieldsFrozen ==
    [][/\ \A id \in (DOMAIN bookings) \cap (DOMAIN bookings') :
             /\ bookings'[id].estimated_cost = bookings[id].estimated_cost
             /\ bookings'[id].created_by = bookings[id].created_by
             /\ bookings'[id].created_at = bookings[id].created_at
       /\ (lastOp.op = "idle" /\ lastOp'.op \in {"Update", "Escalate"})
             => DOMAIN bookings' = DOMAIN bookings]_vars

\* An Update has changed the urgency and the equipment of a booking, whose
\* estimate is no longer what a Create would compute for it.
C20_Witness ==
    /\ lastOp.op = "Update"
    /\ lastOp.committed
    /\ ~IsNull(lastOp.arg.urgency)
    /\ ~IsNull(lastOp.arg.required_equipment)
    /\ Written.urgency # Val(lastOp.old).urgency
    /\ Written.estimated_cost = Val(lastOp.old).estimated_cost
    /\ Written.estimated_cost # Some(calculate_estimated_cost(Written))


\* What C17's rule gives for each element tried: an enum member is kept;
\* a string that is a member's value once lower-cased and with its blanks
\* made underscores becomes that member; otherwise 'ventilator', 'ecg' or
\* 'monitor', 'defib', 'oxygen', 'infusion' and 'patient' inside the string
\* pick the member; anything else is dropped.
Expected(label) ==
    CASE label = EcgMonitorStr -> <<"ecg_monitor">>
      [] label = VentilatorStr -> <<"ventilator">>
      [] label = PortableVentilatorStr -> <<"ventilator">>
      [] label = HeartMonitorStr -> <<"ecg_monitor">>
      [] label = DefibUnitStr -> <<"defibrillator">>
      [] label = OxygenTankStr -> <<"oxygen_supply">>
      [] label = InfusionSetStr -> <<"infusion_pump">>
      [] label = PatientLiftStr -> <<"patient_monitor">>
      [] label = PatientMonitorStr -> <<"patient_monitor">>
      [] label = StretcherStr -> <<>>
      [] label = DefibrillatorMember -> <<"defibrillator">>
      [] label = NumberLabel -> <<>>

RECURSIVE ExpectedAll(_)
ExpectedAll(labels) ==
    IF labels = <<>> THEN <<>>
    ELSE Expected(Head(labels)) \o ExpectedAll(Tail(labels))

\* C17: normalisation maps each element of its input on its own, by the
\* rule above, dropping what the rule does not place and never failing;
\* ["ECG Monitor", "ventilator"] gives ECG_MONITOR and VENTILATOR, and the
\* output is never longer than the input.
C17_NormalizationRule ==
    ~IsNull(equipment_result) =>
        /\ Val(equipment_result) = ExpectedAll(equipment_arg)
        /\ Len(Val(equipment_result)) <= Len(equipment_arg)
        /\ equipment_arg = <<EcgMonitorStr, VentilatorStr>>
              => Elements(Val(equipment_result)) = {"ecg_monitor", "ventilator"}

\* ["ECG Monitor", "ventilator"] has been normalised.
C17_Witness ==
    /\ equipment_arg = <<EcgMonitorStr, VentilatorStr>>
    /\ equipment_result = Some(<<"ecg_monitor", "ventilator">>)


\* The websockets whose send_text raised in the broadcast.
Failed == Elements(broadcasting.disconnected_connections)

\* C18: a broadcast that no other task disturbs calls send_text once on
\* every observer of the registry, in order, whether or not earlier sends
\* failed; it returns normally; and at its end the observers whose send
\* failed are out of the registry and those whose send succeeded are in it.
C18_BroadcastSurvivesFailures ==
    (broadcasting.pc = "done" /\ ~broadcasting.disturbed) =>
        /\ broadcasting.attempted = broadcasting.start
        /\ \A websocket \in Elements(broadcasting.start) :
              Connected(active_connections, websocket) <=> websocket \notin Failed
        /\ Elements(active_connections) \subseteq Elements(broadcasting.start)

\* A broadcast to three observers has ended: the send to the second
\* failed, the third was sent to all the same, and only the second is out.
C18_Witness ==
    /\ broadcasting.pc = "done"
    /\ ~broadcasting.disturbed
    /\ broadcasting.start = <<1, 2, 3>>
    /\ broadcasting.attempted = <<1, 2, 3>>
    /\ broadcasting.disconnected_connections = <<2>>
    /\ active_connections = <<1, 3>>

\* C19: under any interleaving of connect, disconnect and broadcast, every
\* observer registered from before a broadcast starts until after it ends
\* has send_text called on it exactly once by that broadcast.
C19_EachObserverOnce ==
    broadcasting.pc = "done" =>
        \A websocket \in Elements(broadcasting.start) \ closed :
            Cardinality({i \in 1..Len(broadcasting.attempted) :
                            broadcasting.attempted[i] = websocket}) = 1


\* C21: for every action and every booking, the recipient list the
\* resolver returns contains the acting actor and contains no user twice,
\* also when the actor matches a role query, and when the user lookup
\* fails the list is the actor alone.
C21_RecipientsHoldActorOnce ==
    ~IsNull(recipients_result) =>
        LET recipients == Val(recipients_result)
        IN /\ \E i \in 1..Len(recipients) :
                 recipients[i] = recipients_arg.current_user
           /\ \A i, j \in 1..Len(recipients) :
                 recipients[i] = recipients[j] => i = j
           /\ recipients_arg.find_raises
                 => recipients = <<recipients_arg.current_user>>

\* The resolver has answered a dispatcher's 'created': the role query
\* matches the actor itself.
C21_Witness ==
    /\ recipients_arg.current_user = "disp"
    /\ recipients_arg.action = "created"
    /\ ~recipients_arg.find_raises
    /\ ~IsNull(recipients_result)
    /\ \E i \in 1..Len(Val(recipients_result)) :
          Val(recipients_result)[i] = "disp"


\* C22: Get and List never modify the store: after either, every stored
\* booking has every field, updated_at included, as before; and what a
\* successful Get returns is the stored booking, so that two Gets with no
\* mutation between them return the same values.
C22_ReadsLeaveStore ==
    [][lastOp'.op \in {"Get", "List"} =>
          /\ bookings' = bookings
          /\ lastOp'.op = "Get" /\ lastOp'.result = Ok
                => lastOp'.resp = Some(bookings[lastOp'.id])]_vars

\* A Get has returned a booking that was updated after its creation.
C22_Witness ==
    /\ lastOp.op = "Get"
    /\ lastOp.result = Ok
    /\ lastOp.resp = Some(bookings[lastOp.id])
    /\ bookings[lastOp.id].status = "approved"


\* C30: Get reveals nothing that List hides: a booking that Get returns to
\* an actor is among the bookings the actor's List with no status filter
\* selects (all pages taken together).
C30_GetWithinList ==
    (lastOp.op = "Get" /\ lastOp.result = Ok) =>
        lastOp.id \in Query(lastOp.actor, Null)


\* C27: once a booking is completed with a recorded flight_duration and
\* actual_cost, an Update whose patch supplies neither of the two leaves
\* both as recorded, whatever else the patch sets.
C27_RecordedCostKept ==
    [][(/\ lastOp'.op = "Update"
        /\ lastOp'.old # <<>>
        /\ bookings[lastOp'.id].status = "completed"
        /\ ~IsNull(bookings[lastOp'.id].flight_duration)
        /\ ~IsNull(bookings[lastOp'.id].actual_cost)
        /\ IsNull(lastOp'.arg.flight_duration)
        /\ IsNull(lastOp'.arg.actual_cost))
       => /\ bookings'[lastOp'.id].flight_duration
                = bookings[lastOp'.id].flight_duration
          /\ bookings'[lastOp'.id].actual_cost
                = bookings[lastOp'.id].actual_cost]_vars


(***************************************************************************)
(* Properties of requests in flight together.                              *)
(***************************************************************************)
\* The Updates and Escalates whose write has committed.
Writers ==
    {k \in Tasks : requests[k].op \in {"Update", "Escalate"}
                   /\ requests[k].committed}

\* A patch that completes the booking and leaves the pricing to the handler.
Completing(booking_update) ==
    /\ booking_update.status = Some("completed")
    /\ IsNull(booking_update.flight_duration)
    /\ IsNull(booking_update.actual_cost)

\* C23: an Update or Escalate whose write has committed returns success,
\* and the booking in its response has, for every field the operation
\* wrote, the value it wrote, whatever other requests run beside it.
\* Requests whose dispatch raised are left out here: what they return is
\* C1's matter.
C23_ResponseReflectsWrite ==
    \A k \in Writers :
        (requests[k].pc = "done" /\ ~requests[k].raised) =>
            /\ requests[k].result = Ok
            /\ ~IsNull(requests[k].resp)
            /\ ApplySet(Val(requests[k].resp), requests[k].update_data,
                        requests[k].updated_at) = Val(requests[k].resp)

\* C24: when the booking is gone from the store at the write of an Update
\* or Escalate that had found it, the operation fails with NotFound, emits
\* no notification and no broadcast, and the booking stays absent.
C24_VanishedIsNotFound ==
    [][\A k \in Tasks :
          (/\ requests[k].pc = "prepared"
           /\ requests'[k].pc # "prepared"
           /\ RaceId \notin DOMAIN bookings)
          => /\ requests'[k].pc = "done"
             /\ requests'[k].result = NotFound
             /\ ~requests'[k].committed
             /\ requests'[k].notes = <<>>
             /\ requests'[k].bcasts = <<>>
             /\ RaceId \notin DOMAIN bookings']_vars

\* An Update that found the booking pending and was to complete it has
\* ended in NotFound: a Delete beside it committed first.
C24_Witness ==
    \E k, j \in Tasks :
        /\ requests[k].op = "Update"
        /\ requests[k].pc = "done"
        /\ ~IsNull(requests[k].current_booking)
        /\ Val(requests[k].current_booking).status = "pending"
        /\ requests[k].update_data.status = Some("completed")
        /\ requests[k].result = NotFound
        /\ requests[j].op = "Delete"
        /\ requests[j].committed
        /\ RaceId \notin DOMAIN bookings

\* C25: after two Updates beside one another have both set the booking to
\* completed without flight_duration or actual_cost, the stored
\* flight_duration and actual_cost are the pair one of them wrote, the one
\* that wrote last, and the cost is 100 x duration x multiplier(u) + 500 x n
\* for the urgency u and the equipment count n that Update priced.
C25_LastWriterWritesBoth ==
    (\A k \in Tasks :
        /\ requests[k].op = "Update"
        /\ Completing(requests[k].booking_update)
        /\ requests[k].pc = "done")
    => \E k \in Writers :
          /\ \A j \in Writers : requests[j].wrote <= requests[k].wrote
          /\ bookings[RaceId].flight_duration = requests[k].update_data.flight_duration
          /\ bookings[RaceId].actual_cost = requests[k].update_data.actual_cost
          /\ bookings[RaceId].actual_cost =
                 Some((100 * Val(bookings[RaceId].flight_duration)
                           * SpecMultiplier(Val(requests[k].current_booking).urgency))
                          \div 10
                      + 500 * Len(Val(requests[k].current_booking).required_equipment))

\* Two completing Updates have both read the pending booking, drawn
\* different durations and committed one after the other.
C25_Witness ==
    \E k, j \in Writers :
        /\ \A i \in Tasks : requests[i].pc = "done"
        /\ Completing(requests[k].booking_update)
        /\ Completing(requests[j].booking_update)
        /\ Val(requests[k].current_booking).status = "pending"
        /\ Val(requests[j].current_booking).status = "pending"
        /\ requests[j].wrote < requests[k].wrote
        /\ requests[j].update_data.flight_duration
              # requests[k].update_data.flight_duration
        /\ bookings[RaceId].flight_duration = requests[k].update_data.flight_duration

\* C26: the write of every successful Update and Escalate leaves the stored
\* updated_at not earlier than it was immediately before the write and not
\* earlier than created_at, also when operations on the booking interleave.
C26_UpdatedAtNeverEarlier ==
    \A k \in Writers :
        /\ requests[k].updated_at >= Val(requests[k].before).updated_at
        /\ requests[k].updated_at >= Val(requests[k].before).created_at

\* C28: the actual_cost a completing Update stores is priced by the urgency
\* and the equipment the booking holds in the store when that Update's
\* write commits, also when another request wrote between its read and its
\* write.
C28_CostFromStoreAtCommit ==
    \A k \in Writers :
        (requests[k].op = "Update" /\ Completing(requests[k].booking_update)) =>
            requests[k].update_data.actual_cost =
                Some(calculate_actual_cost(
                         Val(requests[k].before),
                         Val(requests[k].update_data.flight_duration)))

\* C29: of two Deletes beside one another on an existing booking, exactly
\* one reports success and the other fails with NotFound, and one 'deleted'
\* notification and one booking_deleted broadcast are emitted in all.
C29_OneDeleteWins ==
    \A k, j \in Tasks :
        (/\ k # j
         /\ requests[k].op = "Delete" /\ requests[k].pc = "done"
         /\ requests[j].op = "Delete" /\ requests[j].pc = "done") =>
            /\ \/ requests[k].result = Ok /\ requests[j].result = NotFound
               \/ requests[j].result = Ok /\ requests[k].result = NotFound
            /\ Len(requests[k].notes) + Len(requests[j].notes) = 1
            /\ Len(requests[k].bcasts) + Len(requests[j].bcasts) = 1


====
